---- MODULE Spec2Model ----
(***************************************************************************)
(* State-machine model of src/src/main.py (openitool-ipcc): the firmware   *)
(* pipeline download_file -> extract_the_biggest_dmg -> packaging ->       *)
(* ledger writes, run per version by bake_ipcc under asyncio.Semaphore(5), *)
(* and driven per device by fetch_and_bake.                                *)
(*                                                                         *)
(* Strings are sequences of tokens (naturals): a version such as "16.1.1"  *)
(* is the token "16.1" followed by the token ".1", so that Python's        *)
(* substring test `version in text` is modelled by what it does.           *)
(* An action is the code a task runs between two suspension points of the  *)
(* asyncio event loop.                                                     *)
(***************************************************************************)
EXTENDS Integers, Sequences, FiniteSets, TLC

(* ------------------------------ bounds -------------------------------- *)
\* number of calls of bake_ipcc / fetch_and_bake in one behaviour
MaxRuns == 2
\* longest catalog response handed to bake_ipcc in the first run, besides
\* the full listing of six firmwares; every later run takes one firmware at
\* most
MaxBatch == 2
\* the interpreter's recursion limit, scaled down
RecursionLimit == 2

(* ------------------------- program constants -------------------------- *)
\* asyncio.Semaphore(5)
MaxConcurrent == 5
\* response.status != 200
HttpOk == 200

(* ------------------------------ strings ------------------------------- *)
\* JSON punctuation and keys between two values of a ledger file
Sep == <<0>>
V16_1 == <<1>>
V16_1_1 == <<1, 2>>
V17_0 == <<3>>
V17_1 == <<4>>
V17_2 == <<5>>
Versions == {V16_1, V16_1_1, V17_0, V17_1, V17_2}
\* datetime.now(UTC).isoformat(): a clock value
Stamps == {<<6>>}
\* (now - start_time).total_seconds()
Durations == {<<8>>}
BundleNames == {1, 2}
\* the bundle folders the archive tool may extract from a payload image
BundleSets == {{1, 2}}
\* the statuses a request is answered with
Statuses == {HttpOk, 404}
\* a firmware link: a dead one answers 404 to every request
Links == {"alive", "dead"}

\* Python's `s in text` on strings
Contains(text, s) ==
    \E i \in 1..(Len(text) - Len(s) + 1) : SubSeq(text, i, i + Len(s) - 1) = s

RECURSIVE ProcessedText(_)
\* the text of metadata.json holding the list `fw`
ProcessedText(list) ==
    IF list = <<>> THEN <<>>
    ELSE Sep \o Head(list).version \o Sep \o Head(list).buildid \o Sep
         \o Head(list).downloaded_at \o Sep \o Head(list).processing_time_sec
         \o ProcessedText(Tail(list))

RECURSIVE IgnoredText(_)
\* the text of ignored_firmwares.json holding the list `ignored`
IgnoredText(list) ==
    IF list = <<>> THEN <<>>
    ELSE Sep \o Head(list) \o IgnoredText(Tail(list))

(* ----------------------------- firmwares ------------------------------ *)
Fw(v, b, l) == [version |-> v, buildid |-> b, link |-> l]
\* the statuses the link of firmware f may answer a request with
Answers(f) == IF f.link = "dead" THEN {404} ELSE Statuses
\* the firmwares the catalog service lists for the device, oldest last; the
\* second and third are two builds of one version
Listing == << <<V16_1, <<10>> >>, <<V16_1_1, <<11>> >>, <<V16_1_1, <<12>> >>,
              <<V17_0, <<13>> >>, <<V17_1, <<14>> >>, <<V17_2, <<15>> >> >>
ListedFw(i, l) == Fw(Listing[i][1], Listing[i][2], l)

\* the ordered selections of `k` entries among the first `n` of the listing
RECURSIVE Selections(_, _)
Selections(n, k) ==
    IF k = 0 THEN {<<>>}
    ELSE IF n = 0 THEN {}
    ELSE Selections(n - 1, k)
         \cup {Append(r, ListedFw(n, "alive")) : r \in Selections(n - 1, k - 1)}

\* the whole listing with every link but the first dead
FullResponse ==
    [i \in 1..Len(Listing) |->
        ListedFw(i, IF i = 1 THEN "alive" ELSE "dead")]

\* the responses bake_ipcc is called with after `r` runs
Responses(r) ==
    IF r = 0
    THEN UNION {Selections(3, k) : k \in 0..MaxBatch} \cup {FullResponse}
    ELSE UNION {Selections(3, k) : k \in 0..1}

\* the catalog responses fetch_and_bake receives: of up to three firmwares,
\* or the first four of the listing
Catalogs ==
    UNION {Selections(3, k) : k \in 0..3}
    \cup {[i \in 1..4 |-> ListedFw(i, "alive")]}

(* ------------------------------- state -------------------------------- *)
VARIABLES
    git_mode,         \* main: app.parse_args().git
    runs,             \* calls of bake_ipcc / fetch_and_bake made so far
    phase,            \* "idle" | "baking" | "baked" | "crashed"
    entry,            \* "bake": bake_ipcc called directly; "fetch": by fetch_and_bake
    tasks,            \* the TaskGroup's tasks: one run(firmware) per firmware
    semaphore,        \* asyncio.Semaphore: the permits left
    processed_count,  \* bake_ipcc's counter
    disk,             \* per version: the version folder and its files
    processed,        \* <identifier>/metadata.json, list "fw"
    ignored,          \* <identifier>/ignored_firmwares.json, list "ignored"
    repo,             \* the version-control snapshot of the ledgers
    start,            \* history: the ledgers when bake_ipcc was entered
    past,             \* history: what earlier runs did to each version
    packed            \* tar_and_hash_bundles called on its own: folder and records

vars == <<git_mode, runs, phase, entry, tasks, semaphore, processed_count,
          disk, processed, ignored, repo, start, past, packed>>

\* a version folder that does not exist
NoFolder ==
    [dir |-> FALSE, ipsw |-> "none", img |-> {}, pem |-> FALSE,
     folders |-> {}, tars |-> {}, bundles |-> <<>>]

\* tar_and_hash_bundles has not been called on its own
Unpacked == [folder |-> <<>>, records |-> <<>>]

\* the ledgers of a disk state
Ledgers(d, p, i) ==
    [processed |-> p, ignored |-> i, bundles |-> [v \in Versions |-> d[v].bundles]]

EmptyLedgers == Ledgers([v \in Versions |-> NoFolder], <<>>, <<>>)

\* run(firmware) as created by group.create_task
NewTask(f) ==
    [fw |-> f, pc |-> "wait", end |-> "none",
     \* extract_the_biggest_dmg's frame(s)
     skip_extraction |-> FALSE, depth |-> 0, kind |-> "none", outer |-> {},
     biggest |-> "none", bundles |-> {},
     \* history of the call of download_file in progress: the file found at
     \* its entry, the requests issued
     pre |-> "none", gets |-> 0,
     \* history of the call of extract_the_biggest_dmg in progress: the
     \* payload located, decrypt_dmg_aea called, decrypt_dmg called (times)
     located |-> 0, aea_calls |-> 0, legacy |-> 0,
     \* history of the task: what it has done
     did |-> {}]

Init ==
    \* a behaviour is a series of direct calls of bake_ipcc, or a series of
    \* calls of fetch_and_bake by main, with or without --git
    /\ entry \in {"bake", "fetch"}
    /\ git_mode \in IF entry = "fetch" THEN BOOLEAN ELSE {FALSE}
    /\ runs = 0
    /\ phase = "idle"
    /\ tasks = <<>>
    /\ semaphore = MaxConcurrent
    /\ processed_count = 0
    /\ disk = [v \in Versions |-> NoFolder]
    /\ processed = <<>>
    /\ ignored = <<>>
    /\ repo = EmptyLedgers
    /\ start = EmptyLedgers
    /\ past = [ignored |-> {}, failed |-> {}, bundled |-> {}]
    /\ packed = Unpacked

Tasks == 1..Len(tasks)
VersionOf(t) == tasks[t].fw.version
\* the tasks that hold the semaphore
Holders == {t \in Tasks : tasks[t].pc \notin {"wait", "done"}}
\* the task is the only one of its batch with its version
Alone(t) == \A u \in Tasks : VersionOf(u) = VersionOf(t) => u = t
\* the versions listed in the processed ledger
ProcessedVersions(list) == {list[i].version : i \in 1..Len(list)}
IgnoredVersions(list) == {list[i] : i \in 1..Len(list)}

(* --------------------------- fetch_and_bake --------------------------- *)
\* a list, or the IndexError a `del` or an index raised on it
List(l) == [error |-> FALSE, list |-> l]
IndexError == [error |-> TRUE, list |-> <<>>]
\* del parsed_data.firmwares[-1]
DelLast(s) ==
    IF s.error \/ s.list = <<>> THEN IndexError
    ELSE List(SubSeq(s.list, 1, Len(s.list) - 1))
\* del parsed_data.firmwares[:-1]
DelAllButLast(s) ==
    IF s.error THEN IndexError
    ELSE IF s.list = <<>> THEN s ELSE List(<<s.list[Len(s.list)]>>)
\* parsed_data.firmwares[0] must exist
FirstExists(s) == IF s.error \/ s.list = <<>> THEN IndexError ELSE s
\* lines 584-587: the firmwares handed to bake_ipcc, or the IndexError
SelectFirmwares(cat) == FirstExists(DelAllButLast(DelLast(DelLast(List(cat)))))

\* copy_previous_metadata(ident): the ledgers of the last snapshot are put
\* back into the working folder
copy_previous_metadata(d) ==
    [v \in Versions |->
        [d[v] EXCEPT !.bundles = repo.bundles[v],
                     !.dir = d[v].dir \/ repo.bundles[v] # <<>>]]

\* bake_ipcc entered with `resp`: the tasks are created, none has run yet
EnterBake(resp, d, p, i) ==
    /\ tasks' = [k \in 1..Len(resp) |-> NewTask(resp[k])]
    /\ processed_count' = 0
    /\ start' = Ledgers(d, p, i)
    /\ phase' = "baking"

\* a direct call bake_ipcc(response, session, semaphore)
CallBake ==
    /\ phase = "idle" /\ runs < MaxRuns /\ entry = "bake"
    /\ \E resp \in Responses(runs) : EnterBake(resp, disk, processed, ignored)
    /\ UNCHANGED <<packed, git_mode, runs, entry, semaphore, disk, processed, ignored,
                   repo, past>>

\* fetch_and_bake up to its call of bake_ipcc (lines 570-592)
FetchAndBake ==
    /\ phase = "idle" /\ runs < MaxRuns /\ entry = "fetch"
    /\ \E status \in Statuses, cat \in Catalogs :
         LET sel == SelectFirmwares(cat)
         IN IF status # HttpOk \/ cat = <<>>
            THEN \* logged, return
                 /\ runs' = runs + 1
                 /\ UNCHANGED <<phase, tasks, processed_count, disk, processed,
                                ignored, start>>
            ELSE IF sel.error
            THEN \* the IndexError leaves fetch_and_bake and main
                 /\ phase' = "crashed"
                 /\ UNCHANGED <<runs, tasks, processed_count, disk, processed,
                                ignored, start>>
            ELSE LET d == IF git_mode THEN copy_previous_metadata(disk) ELSE disk
                     p == IF git_mode THEN repo.processed ELSE processed
                     i == IF git_mode THEN repo.ignored ELSE ignored
                 IN /\ disk' = d /\ processed' = p /\ ignored' = i
                    /\ EnterBake(sel.list, d, p, i)
                    /\ UNCHANGED runs
    /\ UNCHANGED <<packed, git_mode, entry, semaphore, repo, past>>

(* ------------------------------ bake_ipcc ----------------------------- *)
\* a handler that catches RuntimeError alone: `except RuntimeError`
HandledRuntimeOnly(e) == e = "RuntimeError"

\* the classes `except Exception` (line 553) catches
ExceptionClasses ==
    {"RuntimeError", "NameError", "OSError", "RecursionError", "CalledProcessError"}

Handled(e) == e \in ExceptionClasses

\* the ends of a task inside extract_the_biggest_dmg
ExtractEnds == {"extract_error", "extract_raise"}

\* a task that has left run(): its frames are gone
Ended(rec, how) ==
    [NewTask(rec.fw) EXCEPT
        !.pc = "done", !.end = how, !.did = rec.did,
        \* history: what a failed download_file found and requested
        !.pre = IF how = "download_error" THEN rec.pre ELSE "none",
        !.gets = IF how = "download_error" THEN rec.gets ELSE 0,
        \* history: how often a failed extract_the_biggest_dmg called
        \* decrypt_dmg_aea
        !.aea_calls = IF how \in ExtractEnds THEN rec.aea_calls ELSE 0]

\* the tasks after task t, its record being `rec`, leaves run() by a return
\* (e = "return") or by the exception e: a handled exception is logged; one
\* that leaves run() makes the TaskGroup cancel every unfinished sibling
AfterExit(t, rec, e) ==
    IF e = "return" \/ Handled(e)
    THEN [tasks EXCEPT ![t] = Ended(rec, rec.end)]
    ELSE [u \in Tasks |->
            IF u = t THEN Ended(rec, "raised")
            ELSE IF tasks[u].pc = "done" THEN tasks[u]
            ELSE Ended(tasks[u], "cancelled")]

\* the permits after task t, holding one, leaves run(): `async with` releases
\* it, and so does every cancelled holder
Released(sem, t, e) ==
    sem + 1 + (IF e = "return" \/ Handled(e) THEN 0
               ELSE Cardinality(Holders \ {t}))

\* task t, holding the semaphore, leaves run()
Exit(t, rec, e) ==
    /\ tasks' = AfterExit(t, rec, e)
    /\ semaphore' = Released(semaphore, t, e)

\* a gate that is never closed: run() without `async with semaphore`
Ungated == TRUE

\* semaphore.acquire() does not block
CanAcquire == semaphore > 0

\* the skip checks without the one of metadata.json (line 485)
RecordedIgnoredOnly(v, ign, proc) == Contains(IgnoredText(ign), v)

\* lines 479-486: the version is found in one of the two ledger files
Recorded(v, ign, proc) ==
    Contains(IgnoredText(ign), v) \/ Contains(ProcessedText(proc), v)

\* lines 462-477: the folders are made, the ledger files touched
MakeFolders(d, v) == [d EXCEPT ![v].dir = TRUE]

\* download_file without compare_either_hash: any file found is used
download_file_reusing(file) ==
    IF file # "none"
    THEN [file |-> file, gets |-> 0, pc |-> "extract"]
    ELSE [file |-> "none", gets |-> 1, pc |-> "get"]

\* download_file up to the request (lines 145-155), `file` being what is at
\* the destination path: the file left there and the requests issued
download_file_entry(file) ==
    IF file = "match"
    THEN \* compare_either_hash: the file is used as it is, Ok is returned
         [file |-> file, gets |-> 0, pc |-> "extract"]
    ELSE \* a corrupted file is unlinked; session.get is issued
         [file |-> "none", gets |-> 1, pc |-> "get"]

\* handlers that return Error without the unlink
unlink_skipped(d, v) == d

\* file_path.unlink(missing_ok=True) of the two handlers (lines 175, 179)
unlink(d, v) == [d EXCEPT ![v].ipsw = "none"]

\* run(firmware) from `async with semaphore` to its first suspension: the
\* skip checks, then download_file up to the request (lines 143-155)
Start(t) ==
    /\ phase = "baking" /\ tasks[t].pc = "wait"
    /\ CanAcquire
    /\ LET v == VersionOf(t)
           d == MakeFolders(disk, v)
           file == d[v].ipsw
       IN IF Recorded(v, ignored, processed)
          THEN /\ disk' = d
               /\ tasks' = AfterExit(t, [tasks[t] EXCEPT !.end = "skipped"], "return")
               /\ semaphore' = Released(semaphore - 1, t, "return")
          ELSE LET dl == download_file_entry(file)
               IN /\ disk' = [d EXCEPT ![v].ipsw = dl.file]
                  /\ tasks' = [tasks EXCEPT ![t] =
                       [@ EXCEPT !.pc = dl.pc,
                                 !.pre = IF dl.pc = "get" THEN file ELSE "none",
                                 !.gets = dl.gets,
                                 !.did = @ \cup {"download"}
                                           \cup (IF dl.gets > 0 THEN {"get"} ELSE {})]]
                  /\ semaphore' = semaphore - 1
    /\ UNCHANGED <<packed, git_mode, runs, phase, entry, processed_count, processed,
                   ignored, repo, start, past>>

\* download_file returns Error: run raises RuntimeError (line 491)
DownloadError(t, d) ==
    /\ disk' = d
    /\ Exit(t, [tasks[t] EXCEPT !.end = "download_error"], "RuntimeError")

\* download_file, the answer to session.get (lines 154-165)
DlResponse(t) ==
    /\ phase = "baking" /\ tasks[t].pc = "get"
    /\ LET v == VersionOf(t)
           unlinked == unlink(disk, v)
       IN \E answer \in {"status", "ClientError"}, status \in Answers(tasks[t].fw) :
            IF answer = "ClientError"
            THEN \* line 174: file_path.unlink(missing_ok=True)
                 DownloadError(t, unlinked)
            ELSE IF status # HttpOk
            THEN \* line 158: nothing was written
                 DownloadError(t, disk)
            ELSE IF ~disk[v].dir
            THEN \* open() fails: line 178
                 DownloadError(t, unlinked)
            ELSE /\ disk' = [disk EXCEPT ![v].ipsw = "mismatch"]
                 /\ tasks' = [tasks EXCEPT ![t].pc = "stream"]
                 /\ UNCHANGED semaphore
    /\ UNCHANGED <<packed, git_mode, runs, phase, entry, processed_count, processed,
                   ignored, repo, start, past>>

\* download_file, the end of the chunk loop (lines 170-185)
DlStream(t) ==
    /\ phase = "baking" /\ tasks[t].pc = "stream"
    /\ LET v == VersionOf(t)
       IN \E result \in {"match", "mismatch", "ClientError"} :
            IF result = "ClientError"
            THEN DownloadError(t, unlink(disk, v))
            ELSE IF disk[v].ipsw = "none"
            THEN \* the file was removed under the task: compare_either_hash
                 \* (line 182, outside the try) raises
                 /\ UNCHANGED disk
                 /\ Exit(t, [tasks[t] EXCEPT !.end = "download_raise"], "OSError")
            ELSE \* a hash mismatch is only a warning
                 /\ disk' = [disk EXCEPT ![v].ipsw = result]
                 /\ tasks' = [tasks EXCEPT ![t] =
                                [@ EXCEPT !.pc = "extract", !.pre = "none",
                                          !.gets = 0]]
                 /\ UNCHANGED semaphore
    /\ UNCHANGED <<packed, git_mode, runs, phase, entry, processed_count, processed,
                   ignored, repo, start, past>>

(* ----------------------- extract_the_biggest_dmg ---------------------- *)
\* cleanup() of every frame of the call, innermost first (lines 276-281,
\* 413-414): `paths` are the values of biggest_dmg_file_path of the frames
\* that have assigned it. A frame that has not (the zip could not be opened,
\* or the payload was unrecognized) raises NameError in cleanup before any
\* unlink
cleanup(folder, paths) ==
    IF paths = {} THEN folder
    ELSE [folder EXCEPT !.img = @ \ paths, !.ipsw = "none"]

\* the container and the images a version folder holds
FilesIn(folder) == (IF folder.ipsw = "none" THEN {} ELSE {"ipsw"}) \cup folder.img

\* the payload images the frames of task record `rec` have to clean
FramePaths(rec) ==
    rec.outer \cup (IF rec.biggest = "none" THEN {} ELSE {rec.biggest})

\* extract_the_biggest_dmg ends, its frames unwinding from the state `d` of
\* the disk: with `result` "Error" run raises RuntimeError (line 501), with
\* "raise" the exception `e` leaves the stage
LeaveExtract(t, rec, d, result, e) ==
    LET v == rec.fw.version
        folder == cleanup(d[v], FramePaths(rec))
        \* an innermost frame without a path raises NameError from cleanup
        exc == IF rec.biggest = "none" THEN "NameError" ELSE e
        how == IF rec.biggest = "none" THEN "raise" ELSE result
    IN /\ disk' = [d EXCEPT ![v] = folder]
       /\ Exit(t, [rec EXCEPT !.end = IF how = "raise" THEN "extract_raise"
                                     ELSE "extract_error"], exc)

\* decrypt_dmg_aea (lines 188-261) on a folder: the outcomes of its tools
DecryptOutcomes(folder) ==
    {"install_fail", "fcs_fail", "no_pem", "aea_fail"}
    \cup (IF "aea" \in folder.img THEN {"ok"} ELSE {})

decrypt_dmg_aea(folder, outcome) ==
    IF outcome = "ok"
    THEN \* lines 256-259: the .dmg.aea and the key folder are removed
         [folder EXCEPT !.img = (@ \ {"aea"}) \cup {"dmg"}, !.pem = FALSE]
    ELSE IF outcome = "aea_fail"
    THEN \* the key folder made by `ipsw extract --fcs-key` stays
         [folder EXCEPT !.pem = TRUE]
    ELSE folder

\* a put_metadata that writes the update of a value read before the other
\* writers wrote: their records are lost
put_metadata_stale(acc, new) == new

\* put_metadata(path, key, lambda acc: (acc or []) + new): one atomic
\* read-modify-write of the list
put_metadata(acc, new) == acc \o new

\* ignore() without shutil.rmtree(output)
ignore_keeping(d, v) == d

\* async def ignore() (lines 283-290)
ignore(d, v) == [d EXCEPT ![v] = NoFolder]

\* a frame of extract_the_biggest_dmg from its entry to
\* `await system_has_parent` (lines 292-357)
Extract(t) ==
    /\ phase = "baking" /\ tasks[t].pc = "extract"
    /\ LET v == VersionOf(t)
           rec == [tasks[t] EXCEPT !.biggest = "none",
                                   !.did = @ \cup {"extract"}]
       IN \E content \in {"notzip", "bin", "dmg", "aea"},
             outcome \in DecryptOutcomes(
                 [disk[v] EXCEPT !.img = IF tasks[t].skip_extraction THEN @
                                         ELSE @ \cup {"aea"}]) :
            \* a nested frame reads the container the first frame read
            /\ tasks[t].depth > 0 => content = tasks[t].kind
            /\ IF disk[v].ipsw = "none" \/ content = "notzip"
               THEN \* zipfile.ZipFile raises
                    /\ LeaveExtract(t, rec, disk, "raise", "OSError")
                    /\ UNCHANGED ignored
               ELSE IF content = "bin"
               THEN \* lines 299-304
                    /\ ignored' = put_metadata(ignored, <<v>>)
                    /\ LeaveExtract(t, [rec EXCEPT !.did = @ \cup {"rmtree", "wignored"},
                                                   !.kind = content],
                                    ignore(disk, v), "Error", "RuntimeError")
               ELSE LET located == [rec EXCEPT !.kind = content, !.biggest = content,
                                               !.located = @ + 1]
                        \* lines 312-333
                        extracted == IF tasks[t].skip_extraction THEN disk[v]
                                     ELSE [disk[v] EXCEPT !.img = @ \cup {content}]
                    IN /\ UNCHANGED ignored
                       /\ IF content = "dmg"
                          THEN /\ disk' = [disk EXCEPT ![v] = extracted]
                               /\ tasks' = [tasks EXCEPT ![t] =
                                              [located EXCEPT !.pc = "probe"]]
                               /\ UNCHANGED semaphore
                          ELSE LET decrypted == decrypt_dmg_aea(extracted, outcome)
                                   called == [located EXCEPT !.aea_calls = @ + 1]
                                   d == [disk EXCEPT ![v] = decrypted]
                               IN IF outcome = "ok"
                                  THEN \* lines 351-353
                                       /\ disk' = d
                                       /\ tasks' = [tasks EXCEPT ![t] =
                                            [called EXCEPT !.pc = "probe",
                                                           !.biggest = "dmg"]]
                                       /\ UNCHANGED semaphore
                                  ELSE IF outcome = "install_fail"
                                  THEN LeaveExtract(t, called, d, "raise",
                                                    "CalledProcessError")
                                  ELSE LeaveExtract(t, called, d, "Error",
                                                    "RuntimeError")
    /\ UNCHANGED <<packed, git_mode, runs, phase, entry, processed_count, processed,
                   repo, start, past>>

\* the frame from the answer of system_has_parent to the exit code of 7z
\* (lines 357-409)
Probe(t) ==
    /\ phase = "baking" /\ tasks[t].pc = "probe"
    /\ LET v == VersionOf(t)
           rec == tasks[t]
       IN \E has_parent \in {"Error", "Ok"}, sevenzip \in {"ok", "legacy", "fail"},
             found \in BundleSets :
            \* the archive tool opens only an image that is there
            /\ sevenzip = "ok" => rec.biggest \in disk[v].img
            /\ IF has_parent = "Error" \/ sevenzip = "fail"
               THEN LeaveExtract(t, rec, disk, "Error", "RuntimeError")
               ELSE IF sevenzip = "ok"
               THEN LET d == [disk EXCEPT ![v].folders = @ \cup found]
                        folder == cleanup(d[v], FramePaths(rec))
                    IN /\ disk' = [d EXCEPT ![v] = folder]
                       /\ tasks' = [tasks EXCEPT ![t] =
                            [NewTask(rec.fw) EXCEPT !.pc = "filter",
                                                    !.did = rec.did]]
                       /\ UNCHANGED semaphore
               ELSE \* 'Cannot open the file as [Dmg] archive': await decrypt_dmg
                    /\ tasks' = [tasks EXCEPT ![t] =
                         [rec EXCEPT !.pc = "legacy", !.legacy = @ + 1]]
                    /\ UNCHANGED <<disk, semaphore>>
    /\ UNCHANGED <<packed, git_mode, runs, phase, entry, processed_count, processed,
                   ignored, repo, start, past>>

\* the answer of decrypt_dmg and the recursive call (lines 390-407)
Legacy(t) ==
    /\ phase = "baking" /\ tasks[t].pc = "legacy"
    /\ LET rec == tasks[t]
       IN \E decrypt_result \in {"Error", "Ok"} :
            IF decrypt_result = "Error"
            THEN LeaveExtract(t, rec, disk, "Error", "RuntimeError")
            ELSE IF rec.depth + 1 > RecursionLimit
            THEN LeaveExtract(t, rec, disk, "raise", "RecursionError")
            ELSE /\ tasks' = [tasks EXCEPT ![t] =
                      [rec EXCEPT !.pc = "extract", !.depth = @ + 1,
                                  !.skip_extraction = TRUE,
                                  !.outer = @ \cup {rec.biggest}]]
                 /\ UNCHANGED <<disk, semaphore>>
    /\ UNCHANGED <<packed, git_mode, runs, phase, entry, processed_count, processed,
                   ignored, repo, start, past>>

(* ------------------- packaging and the ledger writes ------------------ *)
\* bundles_glob and delete_non_bundles (lines 505-514)
Filter(t) ==
    /\ phase = "baking" /\ tasks[t].pc = "filter"
    /\ \E result \in {"Error", "Ok"} :
         IF result = "Error"
         THEN Exit(t, [tasks[t] EXCEPT !.end = "filter_error"], "RuntimeError")
         ELSE /\ tasks' = [tasks EXCEPT ![t] =
                   [@ EXCEPT !.pc = "pack",
                             !.bundles = disk[VersionOf(t)].folders]]
              /\ UNCHANGED semaphore
    /\ UNCHANGED <<packed, git_mode, runs, phase, entry, processed_count, disk,
                   processed, ignored, repo, start, past>>

RECURSIVE BundleRecords(_)
\* tar_and_hash_bundles: one record per bundle, in the order of the list
BundleRecords(names) ==
    IF names = {} THEN <<>>
    ELSE LET n == CHOOSE x \in names : \A y \in names : x <= y
         IN <<[bundle_name |-> n]>> \o BundleRecords(names \ {n})

\* tar_and_hash_bundles, the removal of the bundle folders and the write of
\* bundles.json (lines 516-533)
Pack(t) ==
    /\ phase = "baking" /\ tasks[t].pc = "pack"
    /\ LET v == VersionOf(t)
           rec == [tasks[t] EXCEPT !.did = @ \cup {"pack"}]
           names == rec.bundles
           tarred == [disk EXCEPT ![v].tars = @ \cup names,
                                  ![v].folders = @ \ names]
       IN \E result \in {"tar_fails", "write_fails", "Ok"} :
            IF result = "tar_fails" \/ ~disk[v].dir \/ ~(names \subseteq disk[v].folders)
            THEN \* tarfile raises
                 /\ UNCHANGED disk
                 /\ Exit(t, [rec EXCEPT !.end = "pack_raise"], "OSError")
            ELSE IF result = "write_fails"
            THEN /\ disk' = tarred
                 /\ Exit(t, [rec EXCEPT !.end = "bundles_raise"], "OSError")
            ELSE /\ disk' = [tarred EXCEPT ![v].bundles =
                                put_metadata(@, BundleRecords(names))]
                 /\ tasks' = [tasks EXCEPT ![t] =
                      [rec EXCEPT !.pc = "commit", !.did = @ \cup {"wbundles"}]]
                 /\ UNCHANGED semaphore
    /\ UNCHANGED <<packed, git_mode, runs, phase, entry, processed_count, processed,
                   ignored, repo, start, past>>

\* lines 540-548: the completion record
Completion(f, stamp, elapsed) ==
    [version |-> f.version, buildid |-> f.buildid, downloaded_at |-> stamp,
     processing_time_sec |-> elapsed]

\* a count taken before the write: every attempt is counted
CountAttempts(count, result) == count + 1

\* processed_count after the write of metadata.json (line 551): an exception
\* of the write skips the increment
CountAfter(count, result) == IF result = "Ok" THEN count + 1 ELSE count

\* a run() that appends to metadata.json before it packages
CommitBeforePacking(rec) == rec.pc \in {"pack", "commit"}

\* line 535 is reached when the put_metadata of bundles.json (lines 529-533)
\* has returned
CommitPoint(rec) == rec.pc = "commit"

\* the write of metadata.json and the count (lines 535-551)
Commit(t) ==
    /\ phase = "baking" /\ CommitPoint(tasks[t])
    /\ \E result \in {"write_fails", "Ok"}, stamp \in Stamps, elapsed \in Durations :
         IF result = "write_fails"
         THEN /\ Exit(t, [tasks[t] EXCEPT !.end = "processed_raise"], "OSError")
              /\ processed_count' = CountAfter(processed_count, result)
              /\ UNCHANGED processed
         ELSE /\ processed' = put_metadata(processed,
                                  <<Completion(tasks[t].fw, stamp, elapsed)>>)
              /\ processed_count' = CountAfter(processed_count, result)
              /\ Exit(t, [tasks[t] EXCEPT !.end = "ok",
                                          !.did = @ \cup {"wprocessed"}], "return")
    /\ UNCHANGED <<packed, git_mode, runs, phase, entry, disk, ignored, repo, start, past>>

\* the TaskGroup is left (line 452): bake_ipcc returns processed_count, or
\* raises the exception group of a task whose exception left run()
BakeReturn ==
    /\ phase = "baking"
    /\ \A t \in Tasks : tasks[t].pc = "done"
    /\ phase' = IF \E t \in Tasks : tasks[t].end = "raised" THEN "crashed"
                ELSE "baked"
    /\ UNCHANGED <<packed, git_mode, runs, entry, tasks, semaphore, processed_count,
                   disk, processed, ignored, repo, start, past>>

\* the ways a task ends that are the failure of a stage
Failures ==
    {"download_error", "download_raise", "extract_error", "extract_raise",
     "filter_error", "pack_raise", "bundles_raise", "processed_raise"}

\* what the run that ends adds to the history
Past ==
    LET batch == {VersionOf(t) : t \in Tasks}
        ign == {VersionOf(t) : t \in {u \in Tasks : "wignored" \in tasks[u].did}}
        failed == {VersionOf(t) : t \in {u \in Tasks :
                     /\ tasks[u].end \in Failures
                     /\ "wignored" \notin tasks[u].did
                     /\ Alone(u)}}
    IN [ignored |-> past.ignored \cup ign,
        failed |-> (past.failed \ batch) \cup failed,
        bundled |-> past.bundled
                    \cup {VersionOf(t) : t \in {u \in Tasks : "wbundles" \in tasks[u].did}}]

\* process_files_with_git(ident): the folder is snapshot
process_files_with_git(d, p, i) == Ledgers(d, p, i)

\* the end of the run; under fetch_and_bake lines 594-598
RunEnd ==
    /\ phase = "baked"
    /\ phase' = "idle"
    /\ runs' = runs + 1
    /\ tasks' = <<>>
    /\ past' = Past
    /\ IF entry = "fetch" /\ git_mode
       THEN IF processed_count > 0
            THEN /\ repo' = process_files_with_git(disk, processed, ignored)
                 /\ UNCHANGED <<disk, processed, ignored>>
            ELSE \* shutil.rmtree(ident)
                 /\ disk' = [v \in Versions |-> NoFolder]
                 /\ processed' = <<>>
                 /\ ignored' = <<>>
                 /\ UNCHANGED repo
       ELSE UNCHANGED <<disk, processed, ignored, repo>>
    /\ UNCHANGED <<packed, git_mode, entry, semaphore, processed_count, start>>

Next ==
    \/ CallBake
    \/ FetchAndBake
    \/ \E t \in Tasks : Start(t)
    \/ \E t \in Tasks : DlResponse(t)
    \/ \E t \in Tasks : DlStream(t)
    \/ \E t \in Tasks : Extract(t)
    \/ \E t \in Tasks : Probe(t)
    \/ \E t \in Tasks : Legacy(t)
    \/ \E t \in Tasks : Filter(t)
    \/ \E t \in Tasks : Pack(t)
    \/ \E t \in Tasks : Commit(t)
    \/ BakeReturn
    \/ RunEnd

Spec == Init /\ [][Next]_vars

\* every task that can take a step does take one: the event loop runs each
\* ready task, and every awaited call answers
FairSpec == Spec /\ WF_vars(Next)

(* ------------------------------- claims ------------------------------- *)
\* the tasks inside extract_the_biggest_dmg
InExtract(rec) == rec.pc \in {"extract", "probe", "legacy"}
\* the tasks inside download_file
InDownload(rec) == rec.pc \in {"get", "stream"}
\* how often version v is listed in the ignored ledger
Occurrences(list, v) == Cardinality({i \in 1..Len(list) : list[i] = v})

\* C1: at most five version-tasks hold the semaphore at any time, over all
\* calls of bake_ipcc (the permits left are the five minus the holders), and
\* a task that does not hold it has done no download, extraction, packaging
\* or ledger write.
C1_ConcurrencyBound ==
    /\ Cardinality(Holders) <= MaxConcurrent
    /\ semaphore = MaxConcurrent - Cardinality(Holders)
    /\ \A t \in Tasks : tasks[t].pc = "wait" => tasks[t].did = {}

\* C1 witness: the gate is full, five tasks are inside and a sixth waits.
C1_GateFull ==
    /\ Cardinality(Holders) = MaxConcurrent
    /\ semaphore = 0
    /\ \E t \in Tasks : tasks[t].pc = "wait"

\* C2: a task whose version was listed in the processed ledger when
\* bake_ipcc was entered returns without download, extraction or packaging,
\* and when every version of the response was listed, the three ledgers are
\* at the return of bake_ipcc what they were at its entry.
C2_Idempotence ==
    /\ \A t \in Tasks :
         (VersionOf(t) \in ProcessedVersions(start.processed)
            /\ tasks[t].pc # "wait")
         => tasks[t].pc = "done" /\ tasks[t].end = "skipped" /\ tasks[t].did = {}
    /\ (phase = "baked"
          /\ \A t \in Tasks : VersionOf(t) \in ProcessedVersions(start.processed))
       => Ledgers(disk, processed, ignored) = start

\* C2 witness: bake_ipcc has returned from a response whose version an
\* earlier run had processed.
C2_Rerun ==
    /\ phase = "baked" /\ runs > 0
    /\ \E t \in Tasks : /\ VersionOf(t) \in ProcessedVersions(start.processed)
                        /\ tasks[t].end = "skipped"

\* C3: a version that an earlier run appended to the ignored ledger is never
\* downloaded by a later run, with git mode on or off.
C3_IgnoreFinality ==
    \A t \in Tasks :
        VersionOf(t) \in past.ignored => "download" \notin tasks[t].did

\* C4: when extract_the_biggest_dmg finishes, by Ok, Error or an exception,
\* neither the .ipsw container nor the payload image is on disk, and on
\* success the extracted bundle folders are.
C4_Cleanup ==
    [][\A t \in Tasks :
         (InExtract(tasks[t]) /\ Alone(t) /\ ~InExtract(tasks'[t]))
         => /\ FilesIn(disk'[VersionOf(t)]) = {}
            /\ tasks'[t].pc = "filter" => disk'[VersionOf(t)].folders # {}]_vars

\* C5: no task of a batch is cancelled and no exception leaves run(),
\* whatever stage a sibling fails at; every batch that is started ends with
\* bake_ipcc returning its count, every task having acquired the semaphore,
\* finished and released it.
C5_FailureIsolation ==
    /\ [](\A t \in Tasks : tasks[t].end \notin {"cancelled", "raised"})
    /\ [](phase = "crashed" => tasks = <<>>)
    /\ (phase = "baking") ~>
         (/\ phase = "baked"
          /\ semaphore = MaxConcurrent
          /\ \A t \in Tasks : /\ tasks[t].pc = "done"
                              /\ tasks[t].end \in {"skipped", "ok"} \cup Failures)

\* C5 witness: a batch is complete in which one task failed and a sibling
\* was processed.
C5_SiblingSurvives ==
    /\ phase = "baked"
    /\ \E t, u \in Tasks : tasks[t].end \in Failures /\ tasks[u].end = "ok"

\* C6: a version whose task failed without being ignored is not in the
\* processed ledger at the end of the run, and the next run over a response
\* with that version calls download_file for it again.
C6_RetryAfterFailure ==
    /\ phase = "baked" =>
         \A t \in Tasks :
            (tasks[t].end \in Failures /\ "wignored" \notin tasks[t].did /\ Alone(t))
            => VersionOf(t) \notin ProcessedVersions(processed)
    /\ \A t \in Tasks :
         (VersionOf(t) \in past.failed /\ tasks[t].pc # "wait")
         => "download" \in tasks[t].did

\* C7: the count of bake_ipcc is the number of records this call appended
\* to the processed ledger: one per task that ran every stage and both
\* ledger writes, each for a version neither processed nor ignored at entry.
C7_SuccessCount ==
    phase \in {"baking", "baked"} =>
      LET ok == {t \in Tasks : tasks[t].end = "ok"}
          old == Len(start.processed)
      IN /\ processed_count = Cardinality(ok)
         /\ Len(processed) = old + processed_count
         /\ SubSeq(processed, 1, old) = start.processed
         /\ {processed[i].version : i \in (old + 1)..Len(processed)}
              = {VersionOf(t) : t \in ok}
         /\ \A t \in ok :
              /\ VersionOf(t) \notin ProcessedVersions(start.processed)
              /\ VersionOf(t) \notin IgnoredVersions(start.ignored)
              /\ tasks[t].did =
                   {"download", "get", "extract", "pack", "wbundles", "wprocessed"}
                 \/ tasks[t].did =
                   {"download", "extract", "pack", "wbundles", "wprocessed"}

\* C7 witness: bake_ipcc returns 1 from a batch of two, the other task
\* having failed.
C7_OneOfTwo ==
    /\ phase = "baked" /\ processed_count = 1 /\ Len(tasks) = 2
    /\ \E t \in Tasks : tasks[t].end \in Failures

\* C8: download_file with a file at the destination that matches a hash
\* issues no request and returns Ok, the file kept; with one that does not
\* match it deletes the file and issues exactly one request in the call.
C8_DownloadIntegrity ==
    [][\A t \in Tasks :
         LET v == VersionOf(t)
         IN /\ (tasks[t].pc = "wait" /\ "download" \in tasks'[t].did /\ Alone(t))
               => /\ disk[v].ipsw = "match"
                     => /\ tasks'[t].pc = "extract"
                        /\ tasks'[t].gets = 0
                        /\ "get" \notin tasks'[t].did
                        /\ disk'[v].ipsw = "match"
                  /\ disk[v].ipsw = "mismatch"
                     => /\ tasks'[t].pc = "get"
                        /\ tasks'[t].gets = 1
                        /\ disk'[v].ipsw = "none"
            /\ InDownload(tasks[t])
               => /\ tasks[t].gets = 1
                  /\ tasks'[t].pc # "done" => tasks'[t].gets \in {0, 1}
                  /\ tasks'[t].end = "download_error" => tasks'[t].gets = 1]_vars

\* C8 witness: a corrupted file was found and deleted, and the one request
\* of the call is in flight.
C8_Redownload ==
    \E t \in Tasks :
        /\ tasks[t].pc = "get" /\ tasks[t].pre = "mismatch" /\ tasks[t].gets = 1
        /\ disk[VersionOf(t)].ipsw = "none"

\* C9: when download_file has returned Error there is no file at the
\* destination path, also when a corrupted file was there at its entry.
C9_NoTruncatedArtifact ==
    \A t \in Tasks :
        (tasks[t].end = "download_error" /\ Alone(t))
        => disk[VersionOf(t)].ipsw = "none"

\* C9 witness: download_file returned Error in a call that had found a
\* corrupted file.
C9_ErrorAfterCorrupt ==
    \E t \in Tasks :
        /\ tasks[t].end = "download_error" /\ tasks[t].pre = "mismatch"
        /\ Alone(t)

\* C10: the task of a version whose largest container entry is neither a
\* .dmg nor a .dmg.aea removes the version folder and appends the version
\* to the ignored ledger; it writes no bundle or processed record and is
\* not counted; with no other task for the version in the batch, the folder
\* (archives and bundles ledger with it) is gone, the version is once in
\* the ignored ledger and not in the processed ledger.
C10_Unprocessable ==
    \A t \in Tasks :
        (tasks[t].pc = "done" /\ "wignored" \in tasks[t].did)
        => /\ tasks[t].end = "extract_raise"
           /\ tasks[t].did \in {{"download", "get", "extract", "rmtree", "wignored"},
                                {"download", "extract", "rmtree", "wignored"}}
           /\ Alone(t)
              => /\ disk[VersionOf(t)] = NoFolder
                 /\ Occurrences(ignored, VersionOf(t)) = 1
                 /\ VersionOf(t) \notin ProcessedVersions(processed)

\* C10 witness: the only task of a version has ignored it.
C10_Ignored ==
    \E t \in Tasks :
        tasks[t].pc = "done" /\ "wignored" \in tasks[t].did /\ Alone(t)

\* how often version v is listed in the processed ledger
ProcessedOccurrences(list, v) ==
    Cardinality({i \in 1..Len(list) : list[i].version = v})

\* C11: each version string is listed at most once in the processed ledger,
\* over every sequence of runs and every interleaving, also when a response
\* lists two builds of one version.
C11_ProcessedUnique ==
    \A v \in Versions : ProcessedOccurrences(processed, v) <= 1

\* the tasks of the batch that have made the append named `what`
Appenders(what) == {t \in Tasks : what \in tasks[t].did}

\* C12: while and after the tasks of a batch run, each ledger is what it was
\* at the entry of bake_ipcc followed by one record per task that has made
\* its append, whatever the interleaving: no append is lost.
C12_NoLostUpdate ==
    phase \in {"baking", "baked"} =>
      LET oldp == Len(start.processed)
          oldi == Len(start.ignored)
      IN /\ Len(processed) = oldp + Cardinality(Appenders("wprocessed"))
         /\ SubSeq(processed, 1, oldp) = start.processed
         /\ \A t \in Appenders("wprocessed") :
              \E i \in (oldp + 1)..Len(processed) :
                 /\ processed[i].version = VersionOf(t)
                 /\ processed[i].buildid = tasks[t].fw.buildid
         /\ Len(ignored) = oldi + Cardinality(Appenders("wignored"))
         /\ SubSeq(ignored, 1, oldi) = start.ignored
         /\ \A t \in Appenders("wignored") :
              \E i \in (oldi + 1)..Len(ignored) : ignored[i] = VersionOf(t)

\* C12 witness: two tasks of one batch have appended to the ledgers of the
\* identifier, one of them to the processed ledger.
C12_TwoAppends ==
    /\ phase = "baked"
    /\ Cardinality(Appenders("wprocessed") \cup Appenders("wignored")) = 2
    /\ Appenders("wprocessed") # {}

(* ------------------ tar_and_hash_bundles on its own ------------------- *)
\* calls of tar_and_hash_bundles on one bundle folder in one behaviour
MaxPackings == 2

FileNames == {1, 2}
FileData == {1, 2}
\* st_mtime of a file
Mtimes == {1, 2}
\* a bundle folder: its files, each with its bytes and its modification time
BundleFolders ==
    UNION {[ns -> [data : FileData, mtime : Mtimes]] :
             ns \in (SUBSET FileNames) \ {{}}}

\* os.listdir(bundle): the names of the folder in any order
Listings(folder) ==
    LET names == DOMAIN folder
    IN {l \in [1..Cardinality(names) -> names] :
          \A n \in names : \E i \in 1..Cardinality(names) : l[i] = n}

RECURSIVE Members(_, _)
\* the archive written by tar.add(bundle, arcname=bundle.name, recursive=True)
\* (lines 425-426): one member per file, its header holding the name and the
\* modification time read by stat, followed by the bytes
Members(folder, order) ==
    IF order = <<>> THEN <<>>
    ELSE <<Head(order), folder[Head(order)].mtime, folder[Head(order)].data>>
         \o Members(folder, Tail(order))

\* tarfile adds the entries of a directory in sorted order
Archive(folder, listing) ==
    Members(folder, SortSeq(listing, LAMBDA a, b : a < b))

RECURSIVE calculate_hash(_)
\* calculate_hash(bundle_tar, "sha1"): a digest of the bytes of the file
calculate_hash(bytes) ==
    IF bytes = <<>> THEN 7
    ELSE (calculate_hash(SubSeq(bytes, 1, Len(bytes) - 1)) * 31
          + bytes[Len(bytes)]) % 251

\* the record tar_and_hash_bundles appends for a bundle (lines 428-437), with
\* the history of what the folder held when it was archived
BundleRecord(folder, listing, now) ==
    [bundle_name |-> 1,
     sha1 |-> calculate_hash(Archive(folder, listing)),
     file_size |-> Len(Archive(folder, listing)),
     created_at |-> now,
     contents |-> [n \in DOMAIN folder |-> folder[n].data],
     mtimes |-> [n \in DOMAIN folder |-> folder[n].mtime]]

PackInit ==
    /\ entry = "bake" /\ git_mode = FALSE /\ runs = 0
    /\ phase = "packing"
    /\ tasks = <<>>
    /\ semaphore = MaxConcurrent
    /\ processed_count = 0
    /\ disk = [v \in Versions |-> NoFolder]
    /\ processed = <<>> /\ ignored = <<>>
    /\ repo = EmptyLedgers /\ start = EmptyLedgers
    /\ past = [ignored |-> {}, failed |-> {}, bundled |-> {}]
    /\ packed \in {[folder |-> f, records |-> <<>>] : f \in BundleFolders}

\* tar_and_hash_bundles([bundle]) (lines 417-439)
TarAndHash ==
    /\ phase = "packing" /\ Len(packed.records) < MaxPackings
    /\ \E listing \in Listings(packed.folder), now \in {1, 2} :
         packed' = [packed EXCEPT !.records =
                      Append(@, BundleRecord(packed.folder, listing, now))]
    /\ UNCHANGED <<git_mode, runs, phase, entry, tasks, semaphore,
                   processed_count, disk, processed, ignored, repo, start, past>>

\* between two calls a file of the folder is written again with the bytes it
\* had (another extraction of the same bundle, a copy, a touch): its
\* modification time changes, its contents do not
Rewrite ==
    /\ phase = "packing"
    /\ \E n \in DOMAIN packed.folder, m \in Mtimes :
         /\ m # packed.folder[n].mtime
         /\ packed' = [packed EXCEPT !.folder[n].mtime = m]
    /\ UNCHANGED <<git_mode, runs, phase, entry, tasks, semaphore,
                   processed_count, disk, processed, ignored, repo, start, past>>

PackNext == TarAndHash \/ Rewrite

PackSpec == PackInit /\ [][PackNext]_vars

\* C13: two records that tar_and_hash_bundles made of the same bundle folder
\* holding the same contents have the same sha1.
C13_PackagingDeterminism ==
    \A i, j \in 1..Len(packed.records) :
        packed.records[i].contents = packed.records[j].contents
        => packed.records[i].sha1 = packed.records[j].sha1

\* C14: a task that returned without calling download_file has a version
\* that is an entry of the processed list or of the ignored list; a version
\* that only occurs inside another entry (16.1 inside 16.1.1) is downloaded.
C14_SkipOnlyRecorded ==
    \A t \in Tasks :
        tasks[t].end = "skipped"
        => VersionOf(t) \in ProcessedVersions(processed) \cup IgnoredVersions(ignored)

\* C15: download_file and extract_the_biggest_dmg (decrypt_dmg_aea inside
\* it) end by returning Ok or Error: no task leaves one of them by an
\* exception.
C15_StagesReturn ==
    \A t \in Tasks : tasks[t].end \notin {"download_raise", "extract_raise"}

\* C16: in a call of extract_the_biggest_dmg that took the legacy fallback,
\* the payload is located in the container once and decrypt_dmg_aea is
\* invoked at most once: the retry runs the archive step alone.
C16_LegacyRetryOnly ==
    \A t \in Tasks :
        /\ tasks[t].legacy > 0 => tasks[t].located <= 1
        /\ tasks[t].aea_calls <= 1

\* C17: when extract_the_biggest_dmg finishes a call in which decrypt_dmg_aea
\* was invoked, the encrypted image and the key folder made by the key
\* extraction are gone, whatever the outcome of the tools.
C17_DecryptionCleanup ==
    [][\A t \in Tasks :
         (/\ InExtract(tasks[t]) /\ ~InExtract(tasks'[t]) /\ Alone(t)
          /\ (tasks[t].aea_calls > 0 \/ tasks'[t].aea_calls > 0))
         => /\ "aea" \notin disk'[VersionOf(t)].img
            /\ ~disk'[VersionOf(t)].pem]_vars

\* the stages of run() in the order of the code, by what a task records
StageOrder == <<"download", "extract", "pack", "wbundles", "wprocessed">>

\* C18: a task has done a stage only after every earlier stage (download,
\* extraction, packaging, append to the bundles ledger, append to the
\* processed ledger); a task that failed in a stage has made no later
\* append; every version listed in the processed ledger has had its bundles
\* ledger written, in this run or an earlier one; and the only task of a
\* version that was processed leaves the bundle archives and their records.
C18_CommitOrdering ==
    /\ \A t \in Tasks :
         /\ \A i, j \in 1..Len(StageOrder) :
              (i < j /\ StageOrder[j] \in tasks[t].did)
              => StageOrder[i] \in tasks[t].did
         /\ tasks[t].end \in (Failures \ {"bundles_raise", "processed_raise"})
            => tasks[t].did \cap {"wbundles", "wprocessed"} = {}
         /\ tasks[t].end \in Failures => "wprocessed" \notin tasks[t].did
         /\ (tasks[t].end = "ok" /\ Alone(t))
            => /\ disk[VersionOf(t)].bundles # <<>>
               /\ disk[VersionOf(t)].tars # {}
    /\ \A v \in ProcessedVersions(processed) :
         \/ v \in past.bundled
         \/ \E t \in Tasks : VersionOf(t) = v /\ "wbundles" \in tasks[t].did

\* C18 witness: the only task of a version has gone through every stage and
\* the version is listed as processed.
C18_Committed ==
    \E t \in Tasks :
        /\ Alone(t) /\ "wprocessed" \in tasks[t].did
        /\ VersionOf(t) \in ProcessedVersions(processed)

\* C19: a call of extract_the_biggest_dmg invokes the legacy decryption
\* (decrypt_dmg) at most once and does not end by exhausting the
\* interpreter's stack: a second 'Cannot open the file as [Dmg] archive'
\* after a successful legacy decryption ends the stage with a failure.
C19_BoundedLegacyRetry ==
    \A t \in Tasks : tasks[t].legacy <= 1

\* C20: fetch_and_bake returns normally for a catalog of any length, so
\* that main goes on to the next model, and a call of bake_ipcc it makes is
\* handed exactly one firmware.
C20_CatalogIteration ==
    /\ phase # "crashed"
    /\ (entry = "fetch" /\ phase \in {"baking", "baked"}) => Len(tasks) = 1

\* the records of a bundles ledger that name bundle n
BundleOccurrences(list, n) ==
    Cardinality({i \in 1..Len(list) : list[i].bundle_name = n})

\* C21: over every sequence of runs, also after a run whose append to the
\* bundles ledger succeeded and whose append to the processed ledger failed,
\* no bundles ledger holds two records with the same bundle name.
C21_NoDuplicateBundles ==
    \A v \in Versions, n \in BundleNames :
        BundleOccurrences(disk[v].bundles, n) <= 1

====
